---- MODULE Spec2Model ----
(***************************************************************************)
(* Persistence layer of bom-render: the record-access classes of           *)
(* backend/models.py over the PostgreSQL tables created by init_db, and    *)
(* the artifact store of backend/services/file_storage_service.py.         *)
(*                                                                         *)
(* Python None / SQL NULL is the empty tuple, a present value v is <<v>>.  *)
(* Columns declared NOT NULL hold the bare value.                          *)
(***************************************************************************)
EXTENDS Integers, Sequences, FiniteSets

VARIABLES
    workflows,          \* rows of table workflows
    pending_approvals,  \* rows of table pending_approvals
    pa_seq,             \* last value of the SERIAL sequence of pending_approvals.id
    knowledge_base,     \* rows of table knowledge_base
    kb_seq,             \* last value of the SERIAL sequence of knowledge_base.id
    results_files,      \* /var/data/results/<workflow_id>.json : absent or file text
    upload_files,       \* /var/data/uploads/<workflow_id>/<filename> : absent or bytes
    now,                \* the store's clock (CURRENT_TIMESTAMP)
    conns,              \* connections opened by get_db_connection and not closed
    last                \* the call that has just returned: op, args, err, ret, stmts

vars == <<workflows, pending_approvals, pa_seq, knowledge_base, kb_seq,
          results_files, upload_files, now, conns, last>>

-----------------------------------------------------------------------------
(* Bounds of the model *)

MaxTime == 3        \* the clock runs 0..MaxTime: at most MaxTime transactions that write
MaxConns == 2       \* connections that may be open at once
MaxApprovals == 2   \* rows of pending_approvals
MaxIdList == 2      \* length of item_ids
MaxKbRows == 2      \* rows of knowledge_base
MaxQueryLen == 2    \* length of a search query

-----------------------------------------------------------------------------
(* Values *)

None == <<>>
Some(v) == <<v>>
Omitted == <<"default", "default">>   \* a parameter the caller leaves out

Min(a, b) == IF a < b THEN a ELSE b

\* CURRENT_TIMESTAMP of a transaction that writes: the calls are synchronous
\* and each opens its own connection, so it is later than the one before.
Timestamps == {t \in {now + 1} : t <= MaxTime}

\* if x: on a str-or-None argument
TruthyStr(x) == x # None /\ x # Some("")

WorkflowIds == {"w1", "w2"}
Statuses == {"running"}
Modes == {Omitted, Some("delta")}
WiPaths == {None, Some("wi.pdf")}
ItemPaths == {None, Some("im.csv")}
Progresses == {None, Some(0), Some(50)}
Stages == {None, Some(""), Some("parse")}
Messages == {None, Some(""), Some("ok")}

-----------------------------------------------------------------------------
(* Connections *)

\* get_db_connection: one new connection per call, no pool.
get_db_connection == conns < MaxConns

\* cur.close(); conn.close() are the last statements of every handler and
\* stand in no finally clause: an exception of cur.execute skips them.
ConnsAfter(err) == IF err = "none" THEN conns ELSE conns + 1

Call(op, args, err, ret, stmts) ==
    [op |-> op, args |-> args, err |-> err, ret |-> ret, stmts |-> stmts]

Returns(op, args, err, ret, stmts) ==
    /\ last' = Call(op, args, err, ret, stmts)
    /\ conns' = ConnsAfter(err)

-----------------------------------------------------------------------------
(* Table workflows *)

\* The table without its primary key.
WorkflowsKeyTaken_NoKey(id) == FALSE

\* id TEXT PRIMARY KEY
WorkflowsKeyTaken(id) == \E r \in workflows : r.id = id

\* The row an INSERT of (id, comparison_mode, wi_document_path,
\* item_master_path) makes: the other columns take the table's defaults.
WorkflowsNewRow(id, mode, wi, item, t) ==
    [id |-> id, status |-> "pending", comparison_mode |-> mode,
     created_at |-> t, updated_at |-> t, progress |-> Some(0),
     current_stage |-> None, message |-> None,
     wi_document_path |-> wi, item_master_path |-> item]

\* The INSERT leaving comparison_mode to the column default.
CreateModeArg_ColumnDefault(mode) == "full"

\* def create_workflow(workflow_id, comparison_mode='full', wi_path=None, item_path=None)
CreateModeArg(mode) == IF mode = Omitted THEN "full" ELSE mode[1]

create_workflow(workflow_id, comparison_mode, wi_path, item_path) ==
    /\ get_db_connection
    /\ \E t \in Timestamps :
        LET args == <<workflow_id, comparison_mode, wi_path, item_path>>
            mode == CreateModeArg(comparison_mode)
        IN  /\ now' = t
            /\ IF WorkflowsKeyTaken(workflow_id)
               THEN /\ workflows' = workflows
                    /\ Returns("create_workflow", args, "UniqueViolation", None, 1)
               ELSE /\ workflows' = workflows \cup
                          {WorkflowsNewRow(workflow_id, mode, wi_path, item_path, t)}
                    /\ Returns("create_workflow", args, "none", None, 1)
    /\ UNCHANGED <<pending_approvals, pa_seq, knowledge_base, kb_seq,
                   results_files, upload_files>>

\* The SET list update_workflow_status builds, applied to one row.
WorkflowSet(r, status, progress, stage, message, t) ==
    [r EXCEPT !.status = status,
              !.updated_at = t,
              !.progress = IF progress # None THEN progress ELSE @,
              !.current_stage = IF TruthyStr(stage) THEN stage ELSE @,
              !.message = IF TruthyStr(message) THEN message ELSE @]

update_workflow_status(workflow_id, status, progress, stage, message) ==
    /\ get_db_connection
    /\ \E t \in Timestamps :
        /\ now' = t
        /\ workflows' =
              {IF r.id = workflow_id
                 THEN WorkflowSet(r, status, progress, stage, message, t)
                 ELSE r : r \in workflows}
        /\ Returns("update_workflow_status",
                   <<workflow_id, status, progress, stage, message>>, "none", None, 1)
    /\ UNCHANGED <<pending_approvals, pa_seq, knowledge_base, kb_seq,
                   results_files, upload_files>>

\* SELECT * FROM workflows WHERE id = %s; fetchone; the dict of the row or None
WorkflowRecord(workflow_id) ==
    IF \E r \in workflows : r.id = workflow_id
      THEN Some(CHOOSE r \in workflows : r.id = workflow_id)
      ELSE None

get_workflow(workflow_id) ==
    /\ get_db_connection
    /\ Returns("get_workflow", <<workflow_id>>, "none", WorkflowRecord(workflow_id), 1)
    /\ UNCHANGED <<workflows, pending_approvals, pa_seq, knowledge_base, kb_seq,
                   results_files, upload_files, now>>

-----------------------------------------------------------------------------
(* Table pending_approvals *)

ApprovalWorkflowIds == {"", "w1", "w2"}     \* workflow_id TEXT NOT NULL
ItemData == {"{}"}                          \* item_data TEXT NOT NULL, opaque
ItemIds == 1 .. MaxApprovals
ItemIdLists == UNION {[1 .. n -> ItemIds] : n \in 0 .. MaxIdList}
\* (status, reviewer, notes) of a review
Reviews == {<<"approved", Some("alice"), None>>,
            <<"rejected", None, Some("duplicate")>>,
            <<"approved", Some("bob"), Some("ok")>>}
PendingFilters == {None, Some(""), Some("w1"), Some("w2")}

\* The row an INSERT of (workflow_id, item_data) makes: id from the SERIAL
\* sequence, the other columns from the table's defaults.
ApprovalsNewRow(id, workflow_id, item_data, t) ==
    [id |-> id, workflow_id |-> workflow_id, item_data |-> item_data,
     status |-> "pending", created_at |-> t,
     reviewed_by |-> None, reviewed_at |-> None, review_notes |-> None]

add_pending_item(workflow_id, item_data) ==
    /\ get_db_connection
    /\ pa_seq < MaxApprovals
    /\ \E t \in Timestamps :
        /\ now' = t
        /\ pa_seq' = pa_seq + 1
        /\ pending_approvals' = pending_approvals \cup
              {ApprovalsNewRow(pa_seq + 1, workflow_id, item_data, t)}
        /\ Returns("add_pending_item", <<workflow_id, item_data>>, "none", None, 1)
    /\ UNCHANGED <<workflows, knowledge_base, kb_seq, results_files, upload_files>>

\* The rows a result set may hold, in an order ORDER BY created_at DESC allows.
NewestFirst(rows) ==
    {s \in [1 .. Cardinality(rows) -> rows] :
        /\ \A i, j \in DOMAIN s : i # j => s[i] # s[j]
        /\ \A i, j \in DOMAIN s : i < j => s[i].created_at >= s[j].created_at}

\* if workflow_id: WHERE workflow_id = %s AND status = 'pending'
\* else:           WHERE status = 'pending'
PendingSelected(workflow_id) ==
    IF TruthyStr(workflow_id)
      THEN {r \in pending_approvals :
                r.workflow_id = workflow_id[1] /\ r.status = "pending"}
      ELSE {r \in pending_approvals : r.status = "pending"}

get_pending_items(workflow_id) ==
    /\ get_db_connection
    /\ \E items \in NewestFirst(PendingSelected(workflow_id)) :
          Returns("get_pending_items", <<workflow_id>>, "none", items, 1)
    /\ UNCHANGED <<workflows, pending_approvals, pa_seq, knowledge_base, kb_seq,
                   results_files, upload_files, now>>

\* WHERE id IN (%s,...,%s) with only the first identifier bound.
IdIn_FirstOnly(id, item_ids) == id = item_ids[1]

\* WHERE id IN (%s,...,%s), one placeholder per element of item_ids
IdIn(id, item_ids) == \E i \in DOMAIN item_ids : item_ids[i] = id

\* SET status = %s, reviewed_by = %s, reviewed_at = CURRENT_TIMESTAMP, review_notes = %s
ApprovalSet(r, status, reviewer, notes, t) ==
    [r EXCEPT !.status = status, !.reviewed_by = reviewer,
              !.reviewed_at = Some(t), !.review_notes = notes]

update_approval_status(item_ids, status, reviewer, notes) ==
    /\ get_db_connection
    /\ LET args == <<item_ids, status, reviewer, notes>> IN
       IF item_ids = <<>>
         \* placeholders is '', the statement sent is ... WHERE id IN (): the
         \* store rejects it, nothing is committed
         THEN /\ Returns("update_approval_status", args, "SyntaxError", None, 1)
              /\ UNCHANGED <<pending_approvals, now>>
         ELSE \E t \in Timestamps :
              /\ now' = t
              /\ pending_approvals' =
                    {IF IdIn(r.id, item_ids)
                       THEN ApprovalSet(r, status, reviewer, notes, t)
                       ELSE r : r \in pending_approvals}
              /\ Returns("update_approval_status", args, "none", None, 1)
    /\ UNCHANGED <<workflows, pa_seq, knowledge_base, kb_seq,
                   results_files, upload_files>>

-----------------------------------------------------------------------------
(* Table knowledge_base.  A text is the sequence of its characters. *)

Chars == {"a", "A", "b", "%", "_", "\\"}
Queries == UNION {[1 .. n -> Chars] : n \in 0 .. MaxQueryLen}
DefaultLimit == 50      \* def search_items(query='', limit=50)
Limits == {Omitted, Some(1)}

\* (material_name, part_number, description, classification_label,
\*  confidence_level, supplier_info, workflow_id, approved_by, metadata)
KbItems ==
    {<<<<"a", "b">>, None, None, None, Some("high"), None, Some("w1"), None, None>>,
     <<<<"A", "_">>, Some(<<"b", "%">>), None, Some(3), Some("low"), Some("acme"),
       Some("w1"), Some("alice"), Some("{}")>>,
     <<<<"b">>, Some(<<>>), Some(<<"B", "a", "b">>), Some(1), Some("high"), None,
       None, Some("bob"), None>>,
     <<<<"%", "a">>, None, Some(<<"a", "\\">>), None, None, None, Some("w2"), None, None>>}

\* The row the INSERT of add_item makes: approved_at is CURRENT_TIMESTAMP,
\* id and created_at come from the table's defaults.
KbNewRow(id, item, t) ==
    [id |-> id, material_name |-> item[1], part_number |-> item[2],
     description |-> item[3], classification_label |-> item[4],
     confidence_level |-> item[5], supplier_info |-> item[6],
     created_at |-> t, workflow_id |-> item[7], approved_by |-> item[8],
     approved_at |-> Some(t), metadata |-> item[9]]

add_item(item) ==
    /\ get_db_connection
    /\ kb_seq < MaxKbRows
    /\ \E t \in Timestamps :
        /\ now' = t
        /\ kb_seq' = kb_seq + 1
        /\ knowledge_base' = knowledge_base \cup {KbNewRow(kb_seq + 1, item, t)}
        /\ Returns("add_item", item, "none", None, 1)
    /\ UNCHANGED <<workflows, pending_approvals, pa_seq, results_files, upload_files>>

Lower(c) == IF c = "A" THEN "a" ELSE c

RECURSIVE LikeMatch(_, _)
\* text LIKE pattern, on lower-cased characters (ILIKE): % matches any run of
\* characters, _ any one character, \ takes the next character literally.
LikeMatch(text, pattern) ==
    IF pattern = <<>> THEN text = <<>>
    ELSE IF pattern[1] = "\\" THEN
        /\ Len(pattern) >= 2
        /\ text # <<>>
        /\ Lower(text[1]) = Lower(pattern[2])
        /\ LikeMatch(Tail(text), SubSeq(pattern, 3, Len(pattern)))
    ELSE IF pattern[1] = "%" THEN
        \E k \in 0 .. Len(text) :
            LikeMatch(SubSeq(text, k + 1, Len(text)), Tail(pattern))
    ELSE IF pattern[1] = "_" THEN
        text # <<>> /\ LikeMatch(Tail(text), Tail(pattern))
    ELSE
        /\ text # <<>>
        /\ Lower(text[1]) = Lower(pattern[1])
        /\ LikeMatch(Tail(text), Tail(pattern))

\* column ILIKE %s with the parameter f'%{query}%'; NULL ILIKE ... is not true
ILike(column, query) ==
    column # None /\ LikeMatch(column[1], <<"%">> \o query \o <<"%">>)

\* WHERE material_name ILIKE %s OR part_number ILIKE %s OR description ILIKE %s
\* when query is not empty, no WHERE clause otherwise
SearchSelected(query) ==
    IF query # <<>>
      THEN {r \in knowledge_base :
                \/ ILike(Some(r.material_name), query)
                \/ ILike(r.part_number, query)
                \/ ILike(r.description, query)}
      ELSE knowledge_base

\* LIMIT %s
Limit(rows, limit) ==
    LET n == IF limit = Omitted THEN DefaultLimit ELSE limit[1]
    IN  SubSeq(rows, 1, Min(n, Len(rows)))

search_items(query, limit) ==
    /\ get_db_connection
    /\ \E items \in NewestFirst(SearchSelected(query)) :
          Returns("search_items", <<query, limit>>, "none", Limit(items, limit), 1)
    /\ UNCHANGED <<workflows, pending_approvals, pa_seq, knowledge_base, kb_seq,
                   results_files, upload_files, now>>

\* round(x, 1) of x = 100 * high / total, in tenths: the nearest tenth, the
\* even one of two equally near
RoundTenths(high, total) ==
    LET q == (1000 * high) \div total
        twice == 2 * ((1000 * high) % total)
    IN  IF twice > total \/ (twice = total /\ q % 2 = 1) THEN q + 1 ELSE q

get_stats ==
    /\ get_db_connection
    /\ LET total_items == Cardinality(knowledge_base)
           total_workflows ==
               Cardinality({r.workflow_id : r \in
                               {x \in knowledge_base : x.workflow_id # None}})
           high_confidence_items ==
               Cardinality({r \in knowledge_base : r.confidence_level = Some("high")})
           match_rate == IF total_items > 0
                           THEN RoundTenths(high_confidence_items, total_items)
                           ELSE 0
       IN  Returns("get_stats", <<>>, "none",
                   [total_items |-> total_items,
                    total_workflows |-> total_workflows,
                    total_matches |-> total_items,
                    match_rate_tenths |-> match_rate], 3)
    /\ UNCHANGED <<workflows, pending_approvals, pa_seq, knowledge_base, kb_seq,
                   results_files, upload_files, now>>

-----------------------------------------------------------------------------
(* FileStorageService.  A results document is a dict: the sequence of its   *)
(* (key, value) pairs in insertion order, a key or value being a pair       *)
(* <<type, text>>.  A file's text is the sequence of the members written.   *)

\* Names bound in the module's namespace: its imports and its class.
ModuleGlobals == {"os", "shutil", "logging", "UploadFile", "FileStorageService"}

Docs ==
    {<<>>,
     << <<<<"str", "a">>, <<"int", "1">>>> >>,
     << <<<<"str", "a">>, <<"int", "1">>>>, <<<<"str", "b">>, <<"str", "x">>>> >>,
     << <<<<"int", "1">>, <<"str", "x">>>> >>}
Filenames == {"wi.pdf", "im.csv"}
Uploads == {<<>>, <<37>>, <<37, 80>>}       \* the bytes of an uploaded file

\* os.path.join(self.upload_dir, workflow_id, file.filename)
UploadPath(workflow_id, filename) == <<"/var/data", "uploads", workflow_id, filename>>

\* os.path.join(self.results_dir, f'{workflow_id}.json')
ResultsPath(workflow_id) == <<"/var/data", "results", workflow_id, ".json">>

save_file(filename, content, workflow_id) ==
    /\ upload_files' =
          {f \in upload_files : f.path # UploadPath(workflow_id, filename)}
          \cup {[path |-> UploadPath(workflow_id, filename), bytes |-> content]}
    /\ last' = Call("save_file", <<filename, content, workflow_id>>, "none",
                    UploadPath(workflow_id, filename), 0)
    /\ UNCHANGED <<workflows, pending_approvals, pa_seq, knowledge_base, kb_seq,
                   results_files, now, conns>>

\* json.dump(results_data, f, indent=2): one object, its members in order, a
\* key that is not a str written as the str of it.  The text of a file is
\* <<>> when the file is empty, <<members>> when it holds an object.
JsonDump(doc) ==
    <<[i \in 1 .. Len(doc) |-> <<<<"str", doc[i][1][2]>>, doc[i][2]>>]>>

RECURSIVE JsonMembersFrom(_, _)
\* The dict of the members i.. of an object: a key once, at its first place,
\* with the value of its last member.
JsonMembersFrom(members, i) ==
    IF i > Len(members) THEN <<>>
    ELSE IF \E j \in 1 .. i - 1 : members[j][1] = members[i][1]
      THEN JsonMembersFrom(members, i + 1)
      ELSE LET k == members[i][1]
               n == CHOOSE n \in i .. Len(members) :
                       /\ members[n][1] = k
                       /\ \A m \in i .. Len(members) : members[m][1] = k => m <= n
           IN  <<<<k, members[n][2]>>>> \o JsonMembersFrom(members, i + 1)

\* json.load(f) of a file that holds an object
JsonLoad(text) == JsonMembersFrom(text[1], 1)

save_results(workflow_id, results_data) ==
    /\ IF "json" \in ModuleGlobals
         THEN /\ results_files' =
                    [results_files EXCEPT ![workflow_id] = Some(JsonDump(results_data))]
              /\ last' = Call("save_results", <<workflow_id, results_data>>, "none",
                              ResultsPath(workflow_id), 0)
         \* open(results_file, 'w') has made the file empty when the name json
         \* is looked up; the NameError is caught and raised as RuntimeError
         ELSE /\ results_files' = [results_files EXCEPT ![workflow_id] = Some(<<>>)]
              /\ last' = Call("save_results", <<workflow_id, results_data>>,
                              "RuntimeError", None, 0)
    /\ UNCHANGED <<workflows, pending_approvals, pa_seq, knowledge_base, kb_seq,
                   upload_files, now, conns>>

get_results(workflow_id) ==
    /\ last' =
          IF results_files[workflow_id] = None
            THEN Call("get_results", <<workflow_id>>, "FileNotFoundError", None, 0)
          \* a NameError, or the JSONDecodeError of an empty file, is caught
          \* and raised as RuntimeError
          ELSE IF "json" \in ModuleGlobals /\ results_files[workflow_id][1] # <<>>
            THEN Call("get_results", <<workflow_id>>, "none",
                      JsonLoad(results_files[workflow_id][1]), 0)
            ELSE Call("get_results", <<workflow_id>>, "RuntimeError", None, 0)
    /\ UNCHANGED <<workflows, pending_approvals, pa_seq, knowledge_base, kb_seq,
                   results_files, upload_files, now, conns>>

-----------------------------------------------------------------------------
Init ==
    /\ workflows = {}
    /\ pending_approvals = {}
    /\ pa_seq = 0
    /\ knowledge_base = {}
    /\ kb_seq = 0
    /\ results_files = [w \in WorkflowIds |-> None]
    /\ upload_files = {}
    /\ now = 0
    /\ conns = 0
    /\ last = Call("init_db", <<>>, "none", None, 4)

WorkflowNext ==
    \/ \E id \in WorkflowIds, m \in Modes, wi \in WiPaths, it \in ItemPaths :
          create_workflow(id, m, wi, it)
    \/ \E id \in WorkflowIds, s \in Statuses, p \in Progresses,
          sg \in Stages, msg \in Messages :
          update_workflow_status(id, s, p, sg, msg)
    \/ \E id \in WorkflowIds : get_workflow(id)

WorkflowSpec == Init /\ [][WorkflowNext]_vars

ApprovalNext ==
    \/ \E w \in ApprovalWorkflowIds, d \in ItemData : add_pending_item(w, d)
    \/ \E w \in PendingFilters : get_pending_items(w)
    \/ \E ids \in ItemIdLists, rv \in Reviews :
          update_approval_status(ids, rv[1], rv[2], rv[3])

ApprovalSpec == Init /\ [][ApprovalNext]_vars

KnowledgeBaseNext ==
    \/ \E item \in KbItems : add_item(item)
    \/ \E q \in Queries, l \in Limits : search_items(q, l)
    \/ get_stats

KnowledgeBaseSpec == Init /\ [][KnowledgeBaseNext]_vars

StorageNext ==
    \/ \E f \in Filenames, c \in Uploads, w \in WorkflowIds : save_file(f, c, w)
    \/ \E w \in WorkflowIds, d \in Docs : save_results(w, d)
    \/ \E w \in WorkflowIds : get_results(w)

StorageSpec == Init /\ [][StorageNext]_vars

-----------------------------------------------------------------------------
(* Properties of the workflows table *)

HasWorkflow(id) == \E r \in workflows : r.id = id

\* C3 (as claimed): update_status writes progress, current_stage and message
\* exactly when the argument is not None (0 and "" included) and keeps the
\* prior value otherwise; besides status and updated_at nothing else changes,
\* in this row or any other.
C3_PartialUpdateAsClaimed ==
    [][last'.op = "update_workflow_status" =>
        LET a == last'.args IN
        /\ Cardinality(workflows') = Cardinality(workflows)
        /\ \A r \in workflows : \E q \in workflows' :
            /\ q.id = r.id
            /\ r.id # a[1] => q = r
            /\ r.id = a[1] =>
                /\ q.progress = (IF a[3] # None THEN a[3] ELSE r.progress)
                /\ q.current_stage = (IF a[4] # None THEN a[4] ELSE r.current_stage)
                /\ q.message = (IF a[5] # None THEN a[5] ELSE r.message)
                /\ q.comparison_mode = r.comparison_mode
                /\ q.created_at = r.created_at
                /\ q.wi_document_path = r.wi_document_path
                /\ q.item_master_path = r.item_master_path]_vars

\* C4: get(id) right after a create(id, mode, wi, item) of a new id returns a
\* record with that id, status "pending", progress 0, the mode supplied
\* ("full" when omitted) and the two paths supplied; get(id) of an id that
\* has no row returns None.
C4_GetAfterCreate ==
    [][/\ (/\ last.op = "create_workflow" /\ last.err = "none"
           /\ last'.op = "get_workflow" /\ last'.args[1] = last.args[1]) =>
              /\ last'.ret # None
              /\ last'.ret[1].id = last.args[1]
              /\ last'.ret[1].status = "pending"
              /\ last'.ret[1].progress = Some(0)
              /\ last'.ret[1].comparison_mode =
                    (IF last.args[2] = Omitted THEN "full" ELSE last.args[2][1])
              /\ last'.ret[1].wi_document_path = last.args[3]
              /\ last'.ret[1].item_master_path = last.args[4]
       /\ (last'.op = "create_workflow" /\ ~HasWorkflow(last'.args[1])) =>
              last'.err = "none"
       /\ (last'.op = "get_workflow" /\ ~HasWorkflow(last'.args[1])) =>
              last'.ret = None]_vars

\* A get has just returned the record of a workflow created with a mode and
\* both paths.
C4_Witness ==
    /\ last.op = "get_workflow"
    /\ last.ret # None
    /\ last.ret[1].comparison_mode = "delta"
    /\ last.ret[1].wi_document_path = Some("wi.pdf")
    /\ last.ret[1].item_master_path = Some("im.csv")
    /\ last.ret[1].status = "pending"

\* C5: create of an id that exists fails with the duplicate-key error and
\* changes no row; the table never holds two rows of one id, and no step
\* removes a row or an id.
C5_UniqueIds ==
    [][/\ (last'.op = "create_workflow" /\ HasWorkflow(last'.args[1])) =>
              (last'.err = "UniqueViolation" /\ workflows' = workflows)
       /\ \A r1, r2 \in workflows' : r1.id = r2.id => r1 = r2
       /\ \A r \in workflows : \E q \in workflows' : q.id = r.id
       /\ Cardinality(workflows') >= Cardinality(workflows)]_vars

\* A create has just failed on an id that another create had taken, with
\* both workflows in the table.
C5_Witness ==
    /\ last.op = "create_workflow"
    /\ last.err = "UniqueViolation"
    /\ Cardinality(workflows) = 2

\* C10 (as claimed): every record-access call runs exactly one statement on
\* one fresh connection and has released the connection when it returns, on
\* the failing paths too: no connection stays open.
C10_ConnectionReleasedAsClaimed ==
    last.op # "init_db" => (conns = 0 /\ last.stmts = 1)

-----------------------------------------------------------------------------
(* Properties of the pending_approvals table *)

\* C1 (as claimed): bulk_update_status with an empty item_ids fails with an
\* invalid-argument error before any statement is built or sent, and leaves
\* every row as it was.
C1_EmptyListRejectedAsClaimed ==
    [][(last'.op = "update_approval_status" /\ last'.args[1] = <<>>) =>
          /\ last'.err = "InvalidArgumentError"
          /\ last'.stmts = 0
          /\ pending_approvals' = pending_approvals]_vars

\* C2: bulk_update_status with a non-empty item_ids sets status, reviewed_by,
\* reviewed_at and review_notes on exactly the rows whose id is in item_ids;
\* their id, workflow_id, item_data and created_at, and every other row, stay
\* as they were.
C2_BulkUpdateFrame ==
    [][(last'.op = "update_approval_status" /\ last'.args[1] # <<>>) =>
        LET a == last'.args
            targeted(id) == \E i \in 1 .. Len(a[1]) : a[1][i] = id
        IN
        /\ last'.err = "none"
        /\ Cardinality(pending_approvals') = Cardinality(pending_approvals)
        /\ \A r \in pending_approvals : \E q \in pending_approvals' :
            /\ q.id = r.id
            /\ ~targeted(r.id) => q = r
            /\ targeted(r.id) =>
                /\ q.status = a[2]
                /\ q.reviewed_by = a[3]
                /\ q.reviewed_at = Some(now')
                /\ q.review_notes = a[4]
                /\ q.workflow_id = r.workflow_id
                /\ q.item_data = r.item_data
                /\ q.created_at = r.created_at]_vars

\* A bulk update of one identifier has just returned: that row is reviewed,
\* with notes, and the other row of the table is still pending, not reviewed.
C2_Witness ==
    /\ last.op = "update_approval_status"
    /\ Len(last.args[1]) = 1
    /\ \E r, q \in pending_approvals :
        /\ r.id = last.args[1][1]
        /\ r.status = "rejected"
        /\ r.reviewed_at = Some(now)
        /\ r.review_notes = Some("duplicate")
        /\ q.id # r.id
        /\ q.status = "pending"
        /\ q.reviewed_at = None

\* C7 (as claimed): list_pending(workflow_id=X) with any X other than None
\* returns only pending rows of workflow X; with no workflow_id it returns
\* exactly the pending rows; newest-created first in both.
C7_ListPendingAsClaimed ==
    last.op = "get_pending_items" =>
        LET items == last.ret
            X == last.args[1]
        IN
        /\ \A i \in 1 .. Len(items) : items[i].status = "pending"
        /\ X # None => \A i \in 1 .. Len(items) : items[i].workflow_id = X[1]
        /\ X = None =>
              {items[i] : i \in 1 .. Len(items)} =
                  {r \in pending_approvals : r.status = "pending"}
        /\ \A i, j \in 1 .. Len(items) :
              i < j => items[i].created_at >= items[j].created_at

\* C9 (as claimed): a row starts "pending" with null review fields, is
\* changed once only (a row that a bulk update has reviewed is not changed by
\* a later one), and is never deleted.
C9_ReviewedOnceAsClaimed ==
    [][/\ \A q \in pending_approvals' :
            (\A r \in pending_approvals : r.id # q.id) =>
                /\ q.status = "pending"
                /\ q.reviewed_by = None
                /\ q.reviewed_at = None
                /\ q.review_notes = None
       /\ \A r \in pending_approvals : \E q \in pending_approvals' : q.id = r.id
       /\ \A r \in pending_approvals :
            r.reviewed_at # None => r \in pending_approvals']_vars

-----------------------------------------------------------------------------
(* Properties of the knowledge_base table *)

RECURSIVE IsPrefix(_, _)
\* q is, character by character and without regard to case, the start of text
IsPrefix(q, text) ==
    \/ q = <<>>
    \/ /\ text # <<>>
       /\ Lower(q[1]) = Lower(text[1])
       /\ IsPrefix(Tail(q), Tail(text))

\* q occurs in the column as a literal substring, without regard to case
Contains(column, q) ==
    /\ column # None
    /\ \E k \in 0 .. Len(column[1]) :
          IsPrefix(q, SubSeq(column[1], k + 1, Len(column[1])))

\* C8 (as claimed): search(q) with a non-empty q, % and _ included, returns
\* only rows that hold q, case-insensitively, as a literal substring of
\* material_name, part_number or description.
C8_SearchLiteralAsClaimed ==
    (last.op = "search_items" /\ last.args[1] # <<>>) =>
        \A i \in 1 .. Len(last.ret) :
            \/ Contains(Some(last.ret[i].material_name), last.args[1])
            \/ Contains(last.ret[i].part_number, last.args[1])
            \/ Contains(last.ret[i].description, last.args[1])

-----------------------------------------------------------------------------
(* Properties of the artifact store *)

\* Two dicts are deep-equal: the same keys, each with the same value (the
\* value of a key is that of its last member).
DictValue(d, k) ==
    d[CHOOSE i \in 1 .. Len(d) :
          d[i][1] = k /\ \A j \in 1 .. Len(d) : d[j][1] = k => j <= i][2]
DictKeys(d) == {d[i][1] : i \in 1 .. Len(d)}
DeepEqual(d1, d2) ==
    /\ DictKeys(d1) = DictKeys(d2)
    /\ \A k \in DictKeys(d1) : DictValue(d1, k) = DictValue(d2, k)

\* C6 (as claimed): save_results(wf, d) succeeds and returns the path
\* results/<wf>.json, and the get_results(wf) that follows returns a value
\* deep-equal to d, the d of the latest save.
C6_ResultsRoundTripAsClaimed ==
    [][/\ last'.op = "save_results" =>
              /\ last'.err = "none"
              /\ last'.ret = ResultsPath(last'.args[1])
       /\ (/\ last.op = "save_results"
           /\ last'.op = "get_results"
           /\ last'.args[1] = last.args[1]) =>
              /\ last'.err = "none"
              /\ DeepEqual(last'.ret, last.args[2])]_vars

====
